---------------------------- MODULE Spec2Model ----------------------------
(***************************************************************************)
(* Model of the AI-Recruitment-Agency repository:                          *)
(*   src/src/RAG.py               ResumeRAG, extract_email_from_text,      *)
(*                                get_text_from_pdf                        *)
(*   src/src/email_candidate.py   get_credentials (Gmail)                  *)
(*   src/src/meeting_scheduler.py get_credentials (Calendar)               *)
(*                                                                         *)
(* A text is a sequence of one-character strings.  An exception raised by  *)
(* a handler is recorded as the handler's outcome.                         *)
(***************************************************************************)
EXTENDS Integers, Sequences, FiniteSets, TLC

VARIABLES
    index,        \* the Chroma collection persisted in "./chroma_db"
    pipelines,    \* folder_path of every ResumeRAG object constructed, in order
    nBuilds,      \* ResumeRAG(folder_path, llm) calls made so far
    lastBuild,    \* outcome of the latest ResumeRAG(folder_path, llm) call
    lastRate,     \* outcome of the latest rate_candidate call
    docText,      \* chunker: page_content of the Document being split
    docChunks,    \* chunker: page_content of the chunks split_documents made
    emailText,    \* extract_email_from_text: its argument
    emailResult,  \* extract_email_from_text: its return value
    pdfFile,      \* get_text_from_pdf: the file behind pdf_path
    pdfPc,        \* get_text_from_pdf: position in the function
    pdfPage,      \* get_text_from_pdf: pages iterated so far
    full_text,    \* get_text_from_pdf: the local accumulator
    pdfResult,    \* get_text_from_pdf: what the caller got
    tokenFile,    \* the file "token.json" of the working directory
    credCall,     \* get_credentials: the latest call and what it returned
    scheduler,    \* self.creds of the latest MeetingScheduler object
    apiCall       \* the latest send_email or schedule call and how it ended

ragVars   == <<index, pipelines, nBuilds, lastBuild, lastRate>>
chunkVars == <<docText, docChunks>>
emailVars == <<emailText, emailResult>>
pdfVars   == <<pdfFile, pdfPc, pdfPage, full_text, pdfResult>>
credVars  == <<tokenFile, credCall, scheduler, apiCall>>
vars      == <<ragVars, chunkVars, emailVars, pdfVars, credVars>>

Min2(a, b) == IF a <= b THEN a ELSE b
CeilDiv(a, b) == (a + b - 1) \div b
Rep(c, n) == [i \in 1..n |-> c]

-----------------------------------------------------------------------------
(***************************************************************************)
(* RecursiveCharacterTextSplitter(chunk_size=1000, chunk_overlap=200,      *)
(* length_function=len), as _load_and_process_documents configures it; the *)
(* other parameters keep the library's defaults: separators                *)
(* ["\n\n", "\n", " ", ""], keep_separator=True, strip_whitespace=True.    *)
(***************************************************************************)
chunk_size == 1000
chunk_overlap == 200

Separators == << <<"\n", "\n">>, <<"\n">>, <<" ">>, <<>> >>
Whitespace == {" ", "\n"}

\* str.strip(): the text without its leading and trailing whitespace.
Strip(s) ==
    IF \A i \in 1..Len(s) : s[i] \in Whitespace THEN <<>>
    ELSE LET first == CHOOSE i \in 1..Len(s) :
                         /\ s[i] \notin Whitespace
                         /\ \A j \in 1..(i - 1) : s[j] \in Whitespace
             last  == CHOOSE i \in 1..Len(s) :
                         /\ s[i] \notin Whitespace
                         /\ \A j \in (i + 1)..Len(s) : s[j] \in Whitespace
         IN  SubSeq(s, first, last)

\* sep occurs in s at position i.
OccursAt(s, sep, i) ==
    /\ i >= 1
    /\ i + Len(sep) - 1 <= Len(s)
    /\ \A k \in 1..Len(sep) : s[i + k - 1] = sep[k]

\* re.search(sep, text) finds something.
Contains(s, sep) ==
    \E i \in 1..(Len(s) - Len(sep) + 1) :
        \A k \in 1..Len(sep) : s[i + k - 1] = sep[k]

\* The leftmost occurrence of sep in s at or after from, 0 if there is none.
NextOcc(s, sep, from) ==
    IF \E i \in from..Len(s) : OccursAt(s, sep, i)
    THEN CHOOSE i \in from..Len(s) :
             /\ OccursAt(s, sep, i)
             /\ \A j \in from..(i - 1) : ~OccursAt(s, sep, j)
    ELSE 0

\* The starts of the non-overlapping matches re.split scans, left to right.
RECURSIVE Occurrences(_, _, _)
Occurrences(s, sep, from) ==
    LET i == NextOcc(s, sep, from)
    IN  IF i = 0 THEN <<>> ELSE <<i>> \o Occurrences(s, sep, i + Len(sep))

\* _split_text_with_regex(text, separator, keep_separator=True): every
\* separator stays at the head of the piece that follows it; empty pieces
\* are dropped.  The separator "" gives list(text).
SplitWithRegex(s, sep) ==
    IF sep = <<>> THEN [i \in 1..Len(s) |-> <<s[i]>>]
    ELSE LET occ  == Occurrences(s, sep, 1)
             k    == Len(occ)
             stop == [i \in 1..k |-> IF i < k THEN occ[i + 1] - 1 ELSE Len(s)]
             head == IF k = 0 THEN s ELSE SubSeq(s, 1, occ[1] - 1)
         IN  (IF head = <<>> THEN <<>> ELSE <<head>>)
             \o [i \in 1..k |-> SubSeq(s, occ[i], stop[i])]

\* "".join(docs)
RECURSIVE Join(_)
Join(docs) == IF docs = <<>> THEN <<>> ELSE Head(docs) \o Join(Tail(docs))

\* _join_docs(docs, ""): the joined text stripped, in a list; nothing when
\* the stripped text is empty (the code's None).
JoinDocs(docs) ==
    LET text == Strip(Join(docs))
    IN  IF text = <<>> THEN <<>> ELSE <<text>>

\* The while loop of _merge_splits (separator ""): drop the head of
\* current_doc until at most overlap characters are kept and d fits.
RECURSIVE PopOverlap(_, _, _, _, _)
PopOverlap(cur, total, dlen, size, overlap) ==
    IF total > overlap \/ (total + dlen > size /\ total > 0)
    THEN PopOverlap(Tail(cur), total - Len(Head(cur)), dlen, size, overlap)
    ELSE [cur |-> cur, total |-> total]

\* _merge_splits(splits, ""), from its i-th split on.
RECURSIVE MergeFrom(_, _, _, _, _, _, _)
MergeFrom(splits, i, cur, total, docs, size, overlap) ==
    IF i > Len(splits) THEN docs \o JoinDocs(cur)
    ELSE LET d    == splits[i]
             full == total + Len(d) > size
             emit == full /\ cur # <<>>
             kept == IF emit THEN PopOverlap(cur, total, Len(d), size, overlap)
                     ELSE [cur |-> cur, total |-> total]
         IN  MergeFrom(splits, i + 1, Append(kept.cur, d), kept.total + Len(d),
                       IF emit THEN docs \o JoinDocs(cur) ELSE docs,
                       size, overlap)

MergeSplits(splits, size, overlap) ==
    MergeFrom(splits, 1, <<>>, 0, <<>>, size, overlap)

\* _merge_splits(list(text), ""): with one-character splits current_doc is
\* a window of the text that is emitted when it holds size characters and
\* then keeps its last overlap characters, so window j starts
\* (j-1)*(size-overlap) characters into the text.
MergeChars(s, size, overlap) ==
    LET L    == Len(s)
        step == size - overlap
        n    == IF L <= size THEN 1 ELSE 1 + CeilDiv(L - size, step)
        win  == [j \in 1..n |->
                    JoinDocs(<<SubSeq(s, 1 + (j - 1) * step,
                                      Min2(L, (j - 1) * step + size))>>)]
    IN  Join(win)

\* _split_text(text, separators): split on the first separator that occurs,
\* merge the pieces shorter than chunk_size, split the others further.
RECURSIVE SplitText(_, _, _, _)
RECURSIVE SplitWalk(_, _, _, _, _, _, _)
SplitWalk(splits, i, good, rest, out, size, overlap) ==
    LET flush == IF good = <<>> THEN <<>> ELSE MergeSplits(good, size, overlap)
    IN  IF i > Len(splits) THEN out \o flush
        ELSE IF Len(splits[i]) < size
        THEN SplitWalk(splits, i + 1, Append(good, splits[i]), rest, out,
                       size, overlap)
        ELSE SplitWalk(splits, i + 1, <<>>, rest,
                       out \o flush
                           \o (IF rest = <<>> THEN <<splits[i]>>
                               ELSE SplitText(splits[i], rest, size, overlap)),
                       size, overlap)

SplitText(text, seps, size, overlap) ==
    LET found == {i \in 1..Len(seps) : seps[i] = <<>> \/ Contains(text, seps[i])}
        at    == CHOOSE i \in found : \A j \in found : i <= j
        sep   == seps[at]
        rest  == IF sep = <<>> THEN <<>> ELSE SubSeq(seps, at + 1, Len(seps))
    IN  IF sep = <<>> /\ size > 1 THEN MergeChars(text, size, overlap)
        ELSE SplitWalk(SplitWithRegex(text, sep), 1, <<>>, rest, <<>>,
                       size, overlap)

\* A splitter configured with the overlap added to the chunk size.
SplitDocumentWide(text) ==
    SplitText(text, Separators, chunk_size + chunk_overlap, chunk_overlap)

\* text_splitter.split_documents(documents), for one Document.
SplitDocument(text) == SplitText(text, Separators, chunk_size, chunk_overlap)


-----------------------------------------------------------------------------
(***************************************************************************)
(* The chunker on its own: one loaded Document is split.                   *)
(***************************************************************************)
MaxRuns == 3

\* The documents tried: up to MaxRuns runs, each a word (a run of
\* non-whitespace characters) or a gap (spaces or line breaks).
WordLens == {1, 900, 1000, 1001, 1800}
TextRuns ==
    {Rep("a", n) : n \in WordLens} \cup {<<" ">>, <<"\n">>, <<"\n", "\n">>}
DocTexts == UNION {{Join(r) : r \in [1..k -> TextRuns]} : k \in 0..MaxRuns}

\* The number of non-whitespace characters of a text.
NonBlank(s) == Cardinality({i \in 1..Len(s) : s[i] \notin Whitespace})

\* A loader returned a Document with this page_content.
ChunkInit ==
    /\ docText \in DocTexts
    /\ docChunks = [split |-> FALSE, chunks |-> <<>>]

\* splits = text_splitter.split_documents(documents)
SplitDocuments ==
    /\ ~docChunks.split
    /\ docChunks' = [split |-> TRUE, chunks |-> SplitDocument(docText)]
    /\ UNCHANGED docText

-----------------------------------------------------------------------------
(***************************************************************************)
(* extract_email_from_text: re.search of                                   *)
(*   \b[A-Za-z0-9._%+-]+@[A-Za-z0-9.-]+\.[A-Z|a-z]{2,7}\b                  *)
(* Characters are tried by class: "a" and "Z" are letters, "7" a digit.    *)
(***************************************************************************)
MaxEmailLen == 6

Letters == {"a", "Z"}
Digits  == {"7"}
EmailAlphabet == {"a", "7", "@", ".", "|", " "}
EmailTexts == UNION {[1..k -> EmailAlphabet] : k \in 0..MaxEmailLen}

LocalClass  == Letters \cup Digits \cup {".", "_", "%", "+", "-"}  \* [A-Za-z0-9._%+-]
DomainClass == Letters \cup Digits \cup {".", "-"}                 \* [A-Za-z0-9.-]
TldClass    == Letters \cup {"|"}                                  \* [A-Z|a-z]
WordClass   == Letters \cup Digits \cup {"_"}                      \* \w

IsWordAt(s, i) == i >= 1 /\ i <= Len(s) /\ s[i] \in WordClass

\* \b between positions p-1 and p of s.
Boundary(s, p) == IsWordAt(s, p - 1) # IsWordAt(s, p)

AllIn(s, from, to, class) == \A k \in from..to : s[k] \in class

\* The pattern matches s[i..e] with a local part of a characters, a domain
\* part of d characters and a last label of t characters.
EmailMatch(s, i, a, d, t) ==
    LET at  == i + a
        dot == at + d + 1
        e   == dot + t
    IN  /\ a >= 1 /\ d >= 1 /\ t >= 2 /\ t <= 7
        /\ e <= Len(s)
        /\ Boundary(s, i)
        /\ AllIn(s, i, at - 1, LocalClass)
        /\ s[at] = "@"
        /\ AllIn(s, at + 1, dot - 1, DomainClass)
        /\ s[dot] = "."
        /\ AllIn(s, dot + 1, e, TldClass)
        /\ Boundary(s, e + 1)

\* The ways the pattern matches at start i.  A match holds at least five
\* characters besides its local part, and as many besides its domain part.
MatchesAt(s, i) ==
    {m \in (1..(Len(s) - i - 4)) \X (1..(Len(s) - i - 4)) \X (2..7) :
        EmailMatch(s, i, m[1], m[2], m[3])}

\* What the backtracking matcher settles on at start i: every quantifier is
\* greedy, so the longest local part, then the longest domain part, then
\* the longest last label that lets the rest of the pattern match.
GreedyMatch(s, i) ==
    LET ms == MatchesAt(s, i)
    IN  CHOOSE m \in ms : \A o \in ms :
            \/ m[1] > o[1]
            \/ m[1] = o[1] /\ m[2] > o[2]
            \/ m[1] = o[1] /\ m[2] = o[2] /\ m[3] >= o[3]

\* match = re.search(email_pattern, text); match.group(0) or None.  The
\* result is a list: the matched text, or nothing for None.
extract_email_from_text(s) ==
    LET starts == {i \in 1..Len(s) : MatchesAt(s, i) # {}}
    IN  IF starts = {} THEN <<>>
        ELSE LET i == CHOOSE i \in starts : \A j \in starts : i <= j
                 m == GreedyMatch(s, i)
             IN  <<SubSeq(s, i, i + m[1] + m[2] + m[3] + 1)>>

EmailInit ==
    /\ emailText \in EmailTexts
    /\ emailResult = [called |-> FALSE, match |-> <<>>]

ExtractEmail ==
    /\ ~emailResult.called
    /\ emailResult' = [called |-> TRUE, match |-> extract_email_from_text(emailText)]
    /\ UNCHANGED emailText

-----------------------------------------------------------------------------
(***************************************************************************)
(* get_text_from_pdf(pdf_path).  The file behind pdf_path either fails to  *)
(* open or opens to a list of pages; page.get_text() gives the page's text *)
(* or raises.                                                              *)
(***************************************************************************)
MaxPages == 3

PageRaises == [ok |-> FALSE, text |-> <<>>]
PageKinds ==
    {PageRaises} \cup {[ok |-> TRUE, text |-> t] : t \in {<<>>, <<"a">>, <<"b", "c">>}}
PdfFiles ==
    {[opens |-> o, pages |-> p] :
        o \in BOOLEAN, p \in UNION {[1..k -> PageKinds] : k \in 0..MaxPages}}

PdfInit ==
    /\ pdfFile \in PdfFiles
    /\ pdfPc = "call"
    /\ pdfPage = 0
    /\ full_text = <<>>
    /\ pdfResult = [kind |-> "pending", text |-> <<>>]

\* An except clause that hands back what was extracted before the failure.
PdfExceptPartial == [kind |-> "returned", text |-> full_text]

\* except Exception as e: print(...); return ""
PdfExcept == [kind |-> "returned", text |-> <<>>]

\* with fitz.open(pdf_path) as doc: full_text = ""
PdfOpen ==
    /\ pdfPc = "call"
    /\ IF pdfFile.opens
       THEN /\ pdfPc' = "pages"
            /\ pdfResult' = pdfResult
       ELSE /\ pdfPc' = "done"
            /\ pdfResult' = PdfExcept
    /\ full_text' = <<>>
    /\ UNCHANGED <<pdfFile, pdfPage>>

\* for page in doc: full_text += page.get_text()
PdfNextPage ==
    /\ pdfPc = "pages"
    /\ pdfPage < Len(pdfFile.pages)
    /\ pdfPage' = pdfPage + 1
    /\ IF pdfFile.pages[pdfPage + 1].ok
       THEN /\ full_text' = full_text \o pdfFile.pages[pdfPage + 1].text
            /\ UNCHANGED <<pdfPc, pdfResult>>
       ELSE /\ pdfPc' = "done"
            /\ pdfResult' = PdfExcept
            /\ UNCHANGED full_text
    /\ UNCHANGED pdfFile

\* return full_text
PdfReturn ==
    /\ pdfPc = "pages"
    /\ pdfPage = Len(pdfFile.pages)
    /\ pdfPc' = "done"
    /\ pdfResult' = [kind |-> "returned", text |-> full_text]
    /\ UNCHANGED <<pdfFile, pdfPage, full_text>>

-----------------------------------------------------------------------------
(***************************************************************************)
(* ResumeRAG.  A folder_path stands for the listing os.listdir gives for   *)
(* it: a sequence of files.  A file has an extension, may make its loader's *)
(* constructor raise (PyPDFLoader and Docx2txtLoader raise ValueError for  *)
(* a path that is no file, such as a directory named "x.pdf"), may make    *)
(* load() raise (a corrupt file), and otherwise loads to its Documents.    *)
(* The files tried: a text file, a directory named like a PDF, a corrupt   *)
(* Word file, and a PDF of one page whose text is one character longer    *)
(* than chunk_size (docs: the lengths of the Documents a file loads to).   *)
(***************************************************************************)
MaxFiles == 2
MaxBuilds == 2
K == 5

FileKinds ==
    { [ext |-> "txt",  creates |-> TRUE,  loads |-> TRUE,  docs |-> <<>>],
      [ext |-> "pdf",  creates |-> FALSE, loads |-> FALSE, docs |-> <<>>],
      [ext |-> "docx", creates |-> TRUE,  loads |-> FALSE, docs |-> <<>>],
      [ext |-> "pdf",  creates |-> TRUE,  loads |-> TRUE,  docs |-> <<chunk_size + 1>>] }
Folders == UNION {[1..k -> FileKinds] : k \in 0..MaxFiles}

\* The page_content of a loaded Document of n characters.
PageContent(n) == Rep("a", n)

\* The chunks split_documents makes of a Document of each length loaded.
PageLens == UNION {{f.docs[j] : j \in 1..Len(f.docs)} : f \in FileKinds}
ChunksOf == [n \in PageLens |-> SplitDocument(PageContent(n))]

\* The Documents loader.load() returns for the i-th file of the folder.
LoaderLoad(folder, i) ==
    [j \in 1..Len(folder[i].docs) |->
        [folder |-> folder, file |-> i, doc |-> j, text |-> folder[i].docs[j]]]

\* _load_documents_from_folder, from the i-th entry of the listing on.  The
\* loader is constructed before the try block, load() is called inside it.
RECURSIVE LoadFrom(_, _, _)
LoadFrom(folder, i, documents) ==
    IF i > Len(folder) THEN [raised |-> FALSE, documents |-> documents]
    ELSE IF folder[i].ext = "pdf" \/ folder[i].ext = "docx"
    THEN IF ~folder[i].creates
         THEN [raised |-> TRUE, documents |-> documents]
         ELSE IF folder[i].loads
         THEN LoadFrom(folder, i + 1, documents \o LoaderLoad(folder, i))
         ELSE LoadFrom(folder, i + 1, documents)
    ELSE LoadFrom(folder, i + 1, documents)

load_documents_from_folder(folder) == LoadFrom(folder, 1, <<>>)

\* text_splitter.split_documents(documents): the chunks of every Document,
\* in order, each with the metadata of its Document.
RECURSIVE SplitAll(_)
SplitAll(documents) ==
    IF documents = <<>> THEN <<>>
    ELSE LET d == Head(documents)
             n == Len(ChunksOf[d.text])
         IN  [c \in 1..n |-> [folder |-> d.folder, file |-> d.file,
                              doc |-> d.doc, chunk |-> c]]
             \o SplitAll(Tail(documents))

\* An index that upserts by chunk identity: a split already stored is not
\* stored again.
from_documents_upsert(collection, splits) ==
    collection \o SelectSeq(splits,
                            LAMBDA c : \A i \in 1..Len(collection) : collection[i] # c)

\* Chroma.from_documents(documents=splits, ..., persist_directory="./chroma_db"):
\* the default collection of the directory is opened and every split is
\* added to it under a fresh uuid4 id.
from_documents(collection, splits) == collection \o splits

\* A constructor without the empty-corpus check: an empty list of splits
\* goes on to the index.
load_and_process_unchecked(folder, collection) ==
    LET loaded == load_documents_from_folder(folder)
        splits == SplitAll(loaded.documents)
    IN  IF loaded.raised
        THEN [outcome |-> "LoaderError", loaded |-> loaded,
              nsplits |-> 0, collection |-> collection]
        ELSE [outcome |-> "pipeline", loaded |-> loaded,
              nsplits |-> Len(splits),
              collection |-> from_documents(collection, splits)]

\* _load_and_process_documents: what the constructor ends with, and the
\* collection it leaves behind.
load_and_process_documents(folder, collection) ==
    LET loaded == load_documents_from_folder(folder)
        splits == SplitAll(loaded.documents)
    IN  IF loaded.raised
        THEN [outcome |-> "LoaderError", loaded |-> loaded,
              nsplits |-> 0, collection |-> collection]
        ELSE IF loaded.documents = <<>>
        THEN [outcome |-> "NoDocumentsFound", loaded |-> loaded,
              nsplits |-> 0, collection |-> collection]
        ELSE [outcome |-> "pipeline", loaded |-> loaded,
              nsplits |-> Len(splits),
              collection |-> from_documents(collection, splits)]

NoBuild ==
    [folder |-> <<>>, outcome |-> "none", raised |-> FALSE, documents |-> <<>>,
     nsplits |-> 0]

\* ResumeRAG(folder_path, llm)
Construct ==
    /\ nBuilds < MaxBuilds
    /\ nBuilds' = nBuilds + 1
    /\ \E folder \in Folders :
        LET r == load_and_process_documents(folder, index)
        IN  /\ index' = r.collection
            /\ pipelines' = IF r.outcome = "pipeline"
                            THEN Append(pipelines, folder) ELSE pipelines
            /\ lastBuild' = [folder |-> folder, outcome |-> r.outcome,
                             raised |-> r.loaded.raised,
                             documents |-> r.loaded.documents,
                             nsplits |-> r.nsplits]
    /\ UNCHANGED lastRate

(***************************************************************************)
(* rate_candidate.  The language model's response either parses as JSON    *)
(* or does not; one that parses is an object holding any of the two keys,  *)
(* each with a number or with something that is no number.                 *)
(***************************************************************************)
RatingKeys == {"work_ex_rating", "skills_rating"}
RatingValues ==
    {[number |-> TRUE, value |-> v] : v \in {-1, 10, 11}}
        \cup {[number |-> FALSE, value |-> 0]}
JsonObjects == UNION {[S -> RatingValues] : S \in SUBSET RatingKeys}
EmptyObject == CHOOSE j \in JsonObjects : DOMAIN j = {}
Responses ==
    {[parses |-> FALSE, json |-> EmptyObject]}
        \cup {[parses |-> TRUE, json |-> j] : j \in JsonObjects}

\* retriever.invoke(query) with search_kwargs {"k": 5}: the k entries of the
\* collection nearest to the query, all of them when it holds fewer.  Which
\* ones are nearest is the embedding model's matter.
Retrievals(collection) ==
    {R \in SUBSET (1..Len(collection)) :
        Cardinality(R) = Min2(K, Len(collection))}

\* prompt_template | llm | JsonOutputParser(): the parser raises
\* OutputParserException for a response that is no JSON and returns the
\* parsed object otherwise.
chain_invoke(response) ==
    IF response.parses
    THEN [outcome |-> "returned", ratings |-> response.json]
    ELSE [outcome |-> "OutputParserException", ratings |-> EmptyObject]

NoRate ==
    [called |-> FALSE, pipeline |-> <<>>, context |-> {},
     response |-> [parses |-> FALSE, json |-> EmptyObject],
     outcome |-> "none", ratings |-> EmptyObject]

RagInit ==
    /\ index = <<>>
    /\ pipelines = <<>>
    /\ nBuilds = 0
    /\ lastBuild = NoBuild
    /\ lastRate = NoRate

\* self.rate_candidate(required_experience_years, required_skills_list) on
\* one of the pipelines constructed.  The criteria reach the result only
\* through the retrieval and the model's response, both drawn here.
RateCandidate ==
    /\ \E p \in 1..Len(pipelines), context \in Retrievals(index),
          response \in Responses :
        LET r == chain_invoke(response)
        IN  lastRate' = [called |-> TRUE, pipeline |-> pipelines[p],
                         context |-> context, response |-> response,
                         outcome |-> r.outcome, ratings |-> r.ratings]
    /\ UNCHANGED <<index, pipelines, nBuilds, lastBuild>>

-----------------------------------------------------------------------------
(***************************************************************************)
(* get_credentials of email_candidate.py and of meeting_scheduler.py, run  *)
(* in one working directory: both use TOKEN_FILE = 'token.json'.  A token  *)
(* carries the scope the user granted when it was issued; the scopes field *)
(* of a Credentials object is what the reader of the file passed in.       *)
(***************************************************************************)
Modules == {"email_candidate", "meeting_scheduler"}
SCOPES(m) == IF m = "email_candidate" THEN "gmail.send" ELSE "calendar"

NoToken == [exists |-> FALSE, grant |-> "", expired |-> FALSE, refresh_token |-> FALSE]
NoCall  == [module |-> "", outcome |-> "none", how |-> "", grant |-> "", scopes |-> ""]

\* get_credentials() of module m with token.json as it is.  consent: the
\* user completes the browser flow; offline: the flow hands out a refresh
\* token; online: the token endpoint answers the refresh request.  A refresh
\* asking for a scope the refresh token was not granted is refused
\* (RefreshError).  Gives the call's outcome and token.json afterwards.
get_credentials(m, file, consent, offline, online) ==
    IF file.exists /\ ~file.expired
    THEN \* creds.valid: returned as read
         [call |-> [module |-> m, outcome |-> "returned", how |-> "file",
                    grant |-> file.grant, scopes |-> SCOPES(m)],
          file |-> file]
    ELSE IF file.exists /\ file.expired /\ file.refresh_token
    THEN \* creds.refresh(Request())
         IF online /\ file.grant = SCOPES(m)
         THEN [call |-> [module |-> m, outcome |-> "returned", how |-> "refresh",
                         grant |-> file.grant, scopes |-> SCOPES(m)],
               file |-> [file EXCEPT !.expired = FALSE]]
         ELSE [call |-> [module |-> m, outcome |-> "raised", how |-> "refresh",
                         grant |-> "", scopes |-> ""],
               file |-> file]
    ELSE \* InstalledAppFlow ... run_local_server(port=0)
         IF consent
         THEN [call |-> [module |-> m, outcome |-> "returned", how |-> "flow",
                         grant |-> SCOPES(m), scopes |-> SCOPES(m)],
               file |-> [exists |-> TRUE, grant |-> SCOPES(m),
                         expired |-> FALSE, refresh_token |-> offline]]
         ELSE [call |-> [module |-> m, outcome |-> "raised", how |-> "flow",
                         grant |-> "", scopes |-> ""],
               file |-> file]

NoScheduler == [built |-> FALSE, grant |-> ""]
NoApi == [op |-> "none", result |-> ""]

CredInit ==
    /\ tokenFile = NoToken
    /\ credCall = NoCall
    /\ scheduler = NoScheduler
    /\ apiCall = NoApi

\* send_email(recipient, sender, subject, body): get_credentials() of
\* email_candidate.py, then users().messages().send(...).execute().  The
\* Gmail API refuses a token that was not granted gmail.send (HttpError);
\* accepts: it accepts the request otherwise.  Both except clauses print.
SendEmail ==
    /\ \E consent \in BOOLEAN, offline \in BOOLEAN, online \in BOOLEAN,
          accepts \in BOOLEAN :
        LET r == get_credentials("email_candidate", tokenFile, consent, offline, online)
        IN  /\ tokenFile' = r.file
            /\ credCall' = r.call
            /\ apiCall' =
                 [op |-> "send_email",
                  result |-> IF r.call.outcome = "raised" THEN "Exception printed"
                             ELSE IF accepts /\ r.call.grant = "gmail.send"
                             THEN "sent"
                             ELSE "HttpError printed"]
    /\ UNCHANGED scheduler

\* MeetingScheduler(summary, description, start_time, end_time, attendees):
\* self.creds = get_credentials() of meeting_scheduler.py; an exception
\* leaves no object.
NewMeetingScheduler ==
    /\ \E consent \in BOOLEAN, offline \in BOOLEAN, online \in BOOLEAN :
        LET r == get_credentials("meeting_scheduler", tokenFile, consent, offline, online)
        IN  /\ tokenFile' = r.file
            /\ credCall' = r.call
            /\ scheduler' = IF r.call.outcome = "returned"
                            THEN [built |-> TRUE, grant |-> r.call.grant]
                            ELSE scheduler
    /\ UNCHANGED apiCall

\* scheduler.schedule(): events().insert(...).execute() with self.creds;
\* returns the created event, or None after an HttpError.
Schedule ==
    /\ scheduler.built
    /\ \E accepts \in BOOLEAN :
        apiCall' = [op |-> "schedule",
                    result |-> IF accepts /\ scheduler.grant = "calendar"
                               THEN "created_event" ELSE "None"]
    /\ UNCHANGED <<tokenFile, credCall, scheduler>>

\* Time passes: the access token stored in token.json reaches its expiry.
TokenExpires ==
    /\ tokenFile.exists /\ ~tokenFile.expired
    /\ tokenFile' = [tokenFile EXCEPT !.expired = TRUE]
    /\ UNCHANGED <<credCall, scheduler, apiCall>>

\* The user deletes token.json, as the comment in email_candidate.py advises.
DeleteToken ==
    /\ tokenFile.exists
    /\ tokenFile' = NoToken
    /\ UNCHANGED <<credCall, scheduler, apiCall>>

-----------------------------------------------------------------------------
(***************************************************************************)
(* Specifications.  Each runs one part of the program and leaves the       *)
(* variables of the other parts as they start.                             *)
(***************************************************************************)
ChunkStart == docText = <<>> /\ docChunks = [split |-> FALSE, chunks |-> <<>>]
EmailStart == emailText = <<>> /\ emailResult = [called |-> FALSE, match |-> <<>>]
PdfStart ==
    /\ pdfFile = [opens |-> FALSE, pages |-> <<>>]
    /\ pdfPc = "call"
    /\ pdfPage = 0
    /\ full_text = <<>>
    /\ pdfResult = [kind |-> "pending", text |-> <<>>]

\* ResumeRAG: construction and rating.
Init == RagInit /\ ChunkStart /\ EmailStart /\ PdfStart /\ CredInit
InitChunk == RagInit /\ ChunkInit /\ EmailStart /\ PdfStart /\ CredInit
InitEmail == RagInit /\ ChunkStart /\ EmailInit /\ PdfStart /\ CredInit
InitPdf == RagInit /\ ChunkStart /\ EmailStart /\ PdfInit /\ CredInit
Next ==
    \/ Construct /\ UNCHANGED <<chunkVars, emailVars, pdfVars, credVars>>
    \/ RateCandidate /\ UNCHANGED <<chunkVars, emailVars, pdfVars, credVars>>
Spec == Init /\ [][Next]_vars

\* ResumeRAG: construction alone.
BuildNext == Construct /\ UNCHANGED <<chunkVars, emailVars, pdfVars, credVars>>
SpecBuild == Init /\ [][BuildNext]_vars

\* The chunker.
ChunkNext == SplitDocuments /\ UNCHANGED <<ragVars, emailVars, pdfVars, credVars>>
SpecChunk == InitChunk /\ [][ChunkNext]_vars

\* extract_email_from_text.
EmailNext == ExtractEmail /\ UNCHANGED <<ragVars, chunkVars, pdfVars, credVars>>
SpecEmail == InitEmail /\ [][EmailNext]_vars

\* get_text_from_pdf.
PdfNext ==
    \/ PdfOpen /\ UNCHANGED <<ragVars, chunkVars, emailVars, credVars>>
    \/ PdfNextPage /\ UNCHANGED <<ragVars, chunkVars, emailVars, credVars>>
    \/ PdfReturn /\ UNCHANGED <<ragVars, chunkVars, emailVars, credVars>>
SpecPdf == InitPdf /\ [][PdfNext]_vars

\* Mail and calendar: get_credentials of both modules and their callers.
CredNext ==
    \/ SendEmail /\ UNCHANGED <<ragVars, chunkVars, emailVars, pdfVars>>
    \/ NewMeetingScheduler /\ UNCHANGED <<ragVars, chunkVars, emailVars, pdfVars>>
    \/ Schedule /\ UNCHANGED <<ragVars, chunkVars, emailVars, pdfVars>>
    \/ TokenExpires /\ UNCHANGED <<ragVars, chunkVars, emailVars, pdfVars>>
    \/ DeleteToken /\ UNCHANGED <<ragVars, chunkVars, emailVars, pdfVars>>
SpecCred == Init /\ [][CredNext]_vars

-----------------------------------------------------------------------------
(***************************************************************************)
(* Properties.                                                             *)
(***************************************************************************)

Unsupported(folder) ==
    \A i \in 1..Len(folder) : folder[i].ext \notin {"pdf", "docx"}

\* C1: constructing ResumeRAG over a folder whose entries all have
\* unsupported extensions, the empty folder included, ends with the
\* ValueError "No documents found in the specified folder." and gives no
\* pipeline object.
C1_NoDocumentsFound ==
    (lastBuild.outcome # "none" /\ Unsupported(lastBuild.folder))
        => /\ lastBuild.outcome = "NoDocumentsFound"
           /\ \A i \in 1..Len(pipelines) : ~Unsupported(pipelines[i])

\* C1 witness: a construction over a non-empty folder of unsupported files
\* has failed.
C1_Witness ==
    /\ lastBuild.outcome = "NoDocumentsFound"
    /\ Len(lastBuild.folder) >= 1
    /\ Unsupported(lastBuild.folder)

\* The Documents of the files of a folder that load, in listing order.
RECURSIVE LoadableFrom(_, _)
LoadableFrom(folder, i) ==
    IF i > Len(folder) THEN <<>>
    ELSE (IF folder[i].ext \in {"pdf", "docx"} /\ folder[i].creates /\ folder[i].loads
          THEN LoaderLoad(folder, i) ELSE <<>>)
         \o LoadableFrom(folder, i + 1)

\* C4: in _load_documents_from_folder a failure on one .pdf or .docx entry,
\* raised when its loader is created or when it is loaded, is caught and the
\* entry skipped: the load never aborts, and returns exactly the Documents
\* of the entries that loaded, in listing order.
C4_Claim ==
    lastBuild.outcome # "none"
        => /\ ~lastBuild.raised
           /\ lastBuild.documents = LoadableFrom(lastBuild.folder, 1)

\* The number of splits a construction over the folder stores.
SplitsOf(folder) == SplitAll(LoadableFrom(folder, 1))

RECURSIVE SplitsStored(_)
SplitsStored(built) ==
    IF built = <<>> THEN 0
    ELSE Len(SplitsOf(Head(built))) + SplitsStored(Tail(built))

\* C8: construction only appends to the persisted index: after any sequence
\* of constructions the index holds the sum of their chunk counts, and each
\* chunk of a folder as many times as the folder was constructed.
C8_AppendOnly ==
    /\ Len(index) = SplitsStored(pipelines)
    /\ \A p \in 1..Len(pipelines) :
         \A c \in 1..Len(SplitsOf(pipelines[p])) :
            Cardinality({i \in 1..Len(index) : index[i] = SplitsOf(pipelines[p])[c]})
                = Cardinality({q \in 1..Len(pipelines) : pipelines[q] = pipelines[p]})

\* C8 witness: one folder with several chunks was constructed twice.
C8_Witness ==
    /\ Len(pipelines) = 2
    /\ pipelines[1] = pipelines[2]
    /\ Len(SplitsOf(pipelines[1])) >= 2
    /\ Len(index) = 2 * Len(SplitsOf(pipelines[1]))

\* C9: every chunk rate_candidate of a pipeline retrieves into its prompt
\* context comes from a document of that pipeline's own folder_path.
C9_Claim ==
    lastRate.called
        => \A i \in lastRate.context : index[i].folder = lastRate.pipeline

Incomplete(response) ==
    ~response.parses \/ ~(RatingKeys \subseteq DOMAIN response.json)

\* C2: for a response of the language model that is malformed or lacks one
\* of the keys work_ex_rating and skills_rating, rate_candidate raises an
\* error to its caller and returns no rating dictionary.
C2_Claim ==
    (lastRate.called /\ Incomplete(lastRate.response))
        => lastRate.outcome \notin {"returned", "none"}

\* C3: every rating dictionary rate_candidate returns holds work_ex_rating
\* and skills_rating, each a number between 0 and 10 inclusive.
C3_Claim ==
    lastRate.outcome = "returned"
        => \A k \in RatingKeys :
              /\ k \in DOMAIN lastRate.ratings
              /\ lastRate.ratings[k].number
              /\ lastRate.ratings[k].value >= 0
              /\ lastRate.ratings[k].value <= 10

\* C5 as claimed: a document of length L gives at least
\* ceil(L / (chunk_size - chunk_overlap)) chunks, none longer than chunk_size.
C5_Claim ==
    docChunks.split
        => /\ Len(docChunks.chunks) >= CeilDiv(Len(docText), chunk_size - chunk_overlap)
           /\ \A c \in 1..Len(docChunks.chunks) : Len(docChunks.chunks[c]) <= chunk_size

\* C5 amended: a document with N non-whitespace characters gives at least
\* ceil(N / chunk_size) chunks, none longer than chunk_size.
C5_ChunkBounds ==
    docChunks.split
        => /\ Len(docChunks.chunks) >= CeilDiv(NonBlank(docText), chunk_size)
           /\ \A c \in 1..Len(docChunks.chunks) : Len(docChunks.chunks[c]) <= chunk_size

\* C5 witness: a document longer than chunk_size was split into several
\* chunks, one of them full, and no more of them than the amended bound.
C5_Witness ==
    /\ docChunks.split
    /\ Len(docText) > chunk_size
    /\ Len(docChunks.chunks) >= 2
    /\ Len(docChunks.chunks) = CeilDiv(NonBlank(docText), chunk_size)
    /\ \E c \in 1..Len(docChunks.chunks) : Len(docChunks.chunks[c]) = chunk_size

\* A text of the claimed form: a local part of letters, digits and . _ % + -,
\* an "@", domain labels, a ".", and a last label of 2 to 7 letters.
ClaimedForm(m) ==
    \E a \in 1..Len(m), t \in 2..7 :
        LET dot == Len(m) - t
        IN  /\ dot >= a + 3
            /\ AllIn(m, 1, a, LocalClass)
            /\ m[a + 1] = "@"
            /\ AllIn(m, a + 2, dot - 1, DomainClass)
            /\ m[dot] = "."
            /\ AllIn(m, dot + 1, Len(m), Letters)

\* C6: extract_email_from_text returns a substring of the claimed form,
\* whose last label is made of letters only, or None; what it returns holds
\* no character outside those classes.
C6_Claim ==
    (emailResult.called /\ emailResult.match # <<>>)
        => /\ ClaimedForm(emailResult.match[1])
           /\ AllIn(emailResult.match[1], 1, Len(emailResult.match[1]),
                    LocalClass \cup DomainClass \cup {"@"})

\* The texts of all pages, in page order.
AllPagesText(file) == Join([i \in 1..Len(file.pages) |-> file.pages[i].text])
Extractable(file) ==
    file.opens /\ \A i \in 1..Len(file.pages) : file.pages[i].ok

\* C7: get_text_from_pdf never raises: it returns the texts of all pages in
\* page order when the file opens and every page extracts, and the empty
\* string when any step fails, never a part of the text.
C7_NeverPropagates ==
    pdfPc = "done"
        => /\ pdfResult.kind = "returned"
           /\ pdfResult.text = IF Extractable(pdfFile) THEN AllPagesText(pdfFile)
                               ELSE <<>>

\* C7 witness: a page failed after an earlier page gave text, and the caller
\* got the empty string.
C7_Witness ==
    /\ pdfPc = "done"
    /\ pdfFile.opens
    /\ Len(pdfFile.pages) >= 2
    /\ pdfFile.pages[1].ok /\ pdfFile.pages[1].text # <<>>
    /\ ~pdfFile.pages[2].ok
    /\ pdfResult = [kind |-> "returned", text |-> <<>>]

\* C10: the credentials a get_credentials call returns were granted the
\* scope of the calling module; a token one module stored is never returned
\* as valid credentials to the other.
C10_Claim ==
    credCall.outcome = "returned" => credCall.grant = SCOPES(credCall.module)
=============================================================================
